---------------------------- MODULE Spec2Model ----------------------------
(***************************************************************************)
(* gosed: in-place, streaming byte-sequence substitution on a file.        *)
(*                                                                         *)
(* The model holds one Replacer (src/main.go) and the part of the file     *)
(* system it touches: the working file at FilePath and the scratch files   *)
(* the replace passes create.  Every exported method is one action; the    *)
(* I/O steps a method performs (open, copy, remove, rename, close, stat)   *)
(* can each fail, chosen by the environment.                               *)
(*                                                                         *)
(* Bytes are small naturals, byte slices and strings are sequences of      *)
(* them, a path is the sequence of its components (<<>> is ".").           *)
(*                                                                         *)
(* BytesReplacingReader is part of package gosed but its file is not among *)
(* the sources; it is modelled from section 4.1 of the specification.      *)
(*                                                                         *)
(* time.Now().UnixNano() is taken to give every scratch file a name no     *)
(* existing file has.                                                      *)
(*                                                                         *)
(* Spec: the Replacer's methods in any order, with failing I/O steps.      *)
(* SpecDeep: the engines on a table of longer patterns, no step failing.   *)
(* SpecReader: the copy of one pass, read by read through the readers.     *)
(***************************************************************************)
EXTENDS Integers, Sequences, FiniteSets, TLC

VARIABLES
    FilePath,   \* replacerConfig.FilePath
    File,       \* replacerConfig.File: "open" (on the file at FilePath),
                \* "stale" (open, on a file no longer at FilePath),
                \* "closed" or "nil"
    FileSize,   \* replacerConfig.FileSize
    Keys,       \* replacerMappings.Keys
    Indices,    \* replacerMappings.Indices
    fsContent,  \* file system: the bytes of the file at FilePath
    fsExists,   \* file system: whether FilePath names a file
    applied,    \* history: per registered mapping, the passes completed for it
    rt,         \* history: the last successful one-mapping Replace
    ret,        \* what the last call did and returned
    calls,      \* number of calls made so far
    reader      \* the Substituting Readers of a copy in progress

vars == <<FilePath, File, FileSize, Keys, Indices, fsContent, fsExists,
          applied, rt, ret, calls, reader>>

---------------------------------------------------------------------------
(* Bounds *)

MaxCalls == 4
MaxMappings == 2
MaxInitLen == 2
MaxOldLen == 1
MaxNewLen == 1
MaxPartial == 1

Bytes == {1, 2}

RECURSIVE SeqsUpTo(_, _)
SeqsUpTo(S, n) ==
    IF n = 0 THEN {<<>>}
    ELSE LET shorter == SeqsUpTo(S, n - 1)
         IN  shorter \cup {Append(s, b) : s \in shorter, b \in S}

\* The old and new sequences callers register (an old one may be empty)
Olds == SeqsUpTo(Bytes, MaxOldLen)
News == SeqsUpTo(Bytes, MaxNewLen)
Contents == SeqsUpTo(Bytes, MaxInitLen)
Paths == {<<"f">>, <<"d", "f">>}

Min(a, b) == IF a < b THEN a ELSE b

---------------------------------------------------------------------------
(* Paths *)

TmpName == "tmp-gosed"

\* path.Dir: all but the last element; "." is the empty sequence
PathDir(p) == SubSeq(p, 1, Len(p) - 1)

\* path.Join(dir, name)
PathJoin(dir, name) == Append(dir, name)

---------------------------------------------------------------------------
(* Substituting Reader (specification section 4.1) *)

IsPrefix(w, p) == Len(w) <= Len(p) /\ SubSeq(p, 1, Len(w)) = w

\* The bytes the reader produces from the window win and the upstream bytes
\* rest: a window equal to the pattern is replaced, a window that is a
\* strict prefix of it takes the next upstream byte (or is flushed at end of
\* stream), a window that diverges gives up its earliest byte.
RECURSIVE ReaderScan(_, _, _, _)
ReaderScan(win, rest, old, new) ==
    IF win = old
    THEN new \o ReaderScan(<<>>, rest, old, new)
    ELSE IF IsPrefix(win, old)
    THEN IF rest = <<>>
         THEN win
         ELSE ReaderScan(Append(win, Head(rest)), Tail(rest), old, new)
    ELSE <<Head(win)>> \o ReaderScan(Tail(win), rest, old, new)

\* Everything read from a reader over upstream until end of stream
ReadAll(upstream, old, new) == ReaderScan(<<>>, upstream, old, new)

\* (a reader that forgets its partial match between two reads: what it
\* holds when the upstream bytes run out is emitted as literal output)
RECURSIVE ReaderFeedNoCarry(_, _, _, _, _)
ReaderFeedNoCarry(win, chunk, old, new, acc) ==
    IF win = old
    THEN ReaderFeedNoCarry(<<>>, chunk, old, new, acc \o new)
    ELSE IF IsPrefix(win, old)
    THEN IF chunk = <<>>
         THEN [out |-> acc \o win, carry |-> <<>>]
         ELSE ReaderFeedNoCarry(Append(win, Head(chunk)), Tail(chunk), old, new, acc)
    ELSE ReaderFeedNoCarry(Tail(win), chunk, old, new, Append(acc, Head(win)))

\* (a reader that, when the window diverges, emits the whole window instead
\* of its earliest byte)
RECURSIVE ReaderFeedEmitsWindow(_, _, _, _, _)
ReaderFeedEmitsWindow(win, chunk, old, new, acc) ==
    IF win = old
    THEN ReaderFeedEmitsWindow(<<>>, chunk, old, new, acc \o new)
    ELSE IF IsPrefix(win, old)
    THEN IF chunk = <<>>
         THEN [out |-> acc, carry |-> win]
         ELSE ReaderFeedEmitsWindow(Append(win, Head(chunk)), Tail(chunk), old, new, acc)
    ELSE ReaderFeedEmitsWindow(<<>>, chunk, old, new, acc \o win)

\* (a reader that returns as soon as the upstream bytes run out, before it
\* has re-examined a window that diverged)
RECURSIVE ReaderFeedReturnsEarly(_, _, _, _, _)
ReaderFeedReturnsEarly(win, chunk, old, new, acc) ==
    IF win = old
    THEN ReaderFeedReturnsEarly(<<>>, chunk, old, new, acc \o new)
    ELSE IF chunk = <<>>
    THEN [out |-> acc, carry |-> win]
    ELSE IF IsPrefix(win, old)
    THEN ReaderFeedReturnsEarly(Append(win, Head(chunk)), Tail(chunk), old, new, acc)
    ELSE ReaderFeedReturnsEarly(Tail(win), chunk, old, new, Append(acc, Head(win)))

\* One read: the reader holds win in its carry-over buffer and its read of
\* upstream returned chunk.  out: the bytes the read produces (after acc);
\* carry: what the carry-over buffer holds when the read returns.
RECURSIVE ReaderFeed(_, _, _, _, _)
ReaderFeed(win, chunk, old, new, acc) ==
    IF win = old
    THEN ReaderFeed(<<>>, chunk, old, new, acc \o new)
    ELSE IF IsPrefix(win, old)
    THEN IF chunk = <<>>
         THEN [out |-> acc, carry |-> win]
         ELSE ReaderFeed(Append(win, Head(chunk)), Tail(chunk), old, new, acc)
    ELSE ReaderFeed(Tail(win), chunk, old, new, Append(acc, Head(win)))

\* (a chain in which a reader hands the bytes it holds at end of stream to
\* nobody)
ReaderFlushDrops(r) == r.out

\* What a reader produces by the read that meets the end of its upstream:
\* the bytes r.out of that read, then the partial match it still holds
ReaderFlush(r) == r.out \o r.carry

\* A read of the head of the chain, layer by layer: layer i takes chunk from
\* layer i-1 (layer 1: from the file) and what it produces is the chunk of
\* layer i+1.  r is what layer i made of its chunk.
RECURSIVE ChainFeed(_, _, _)
ChainFeedLayer(layers, i, r) ==
    ChainFeed([layers EXCEPT ![i].carry = r.carry], i + 1, r.out)

ChainFeed(layers, i, chunk) ==
    IF i > Len(layers)
    THEN [layers |-> layers, out |-> chunk]
    ELSE ChainFeedLayer(layers, i,
                        ReaderFeed(layers[i].carry, chunk,
                                   layers[i].old, layers[i].new, <<>>))

\* The read that meets the end of the file: each layer takes the last bytes
\* of the layer below and then flushes
RECURSIVE ChainEnd(_, _, _)
ChainEndLayer(layers, i, r) ==
    ChainEnd([layers EXCEPT ![i].carry = <<>>], i + 1, ReaderFlush(r))

ChainEnd(layers, i, chunk) ==
    IF i > Len(layers)
    THEN [layers |-> layers, out |-> chunk]
    ELSE ChainEndLayer(layers, i,
                       ReaderFeed(layers[i].carry, chunk,
                                  layers[i].old, layers[i].new, <<>>))

\* NewBytesReplacingReader over each mapping in turn (Reset, for the one
\* reader of a sequential pass): every layer starts with nothing buffered
NewChain(keys, indices) ==
    [i \in 1..Len(keys) |-> [old |-> keys[i], new |-> indices[i], carry |-> <<>>]]

---------------------------------------------------------------------------
(* Environment: which I/O step of a call fails *)

NoFault == [pass |-> 0, step |-> "none", part |-> 0]

\* pass: the pass (1-based) whose step fails; part: the bytes a failing copy
\* wrote to the scratch file before it failed
Faults(passes, steps) ==
    {NoFault} \cup
    {[pass |-> k, step |-> s, part |-> 0] :
        k \in 1..passes, s \in steps \ {"copy"}} \cup
    {[pass |-> k, step |-> "copy", part |-> p] :
        k \in 1..passes, p \in 0..MaxPartial}

SeqSteps == {"openIn", "openOut", "copy", "rename"}
ChainSteps == {"openIn", "openOut", "copy", "remove", "rename"}

---------------------------------------------------------------------------
(* DoSequentialReplace *)

\* Handles opened and Close calls made on them: input is the working file,
\* output the scratch file
Handles(inOpened, inClosed, outOpened, outClosed) ==
    [inOpened |-> inOpened, inClosed |-> inClosed,
     outOpened |-> outOpened, outClosed |-> outClosed]

NoHandles == Handles(0, 0, 0, 0)

\* The deferred function of a pass, run on every exit after both opens:
\* input.Close() twice, output.Close() never
Deferred == Handles(1, 2, 1, 0)

AddHandles(a, b) ==
    Handles(a.inOpened + b.inOpened, a.inClosed + b.inClosed,
            a.outOpened + b.outOpened, a.outClosed + b.outClosed)

\* (a pass that renames the scratch file into place before it looks at the
\* copy's error)
DoSingleReplaceRenamesFirst(path, content, exists, old, new, step, part) ==
    LET tmpFile == PathJoin(PathDir(path), TmpName)
        out == ReadAll(content, old, new)
        fail(at, made, w, now, h) ==
            [outcome |-> "error", wrote |-> 0, content |-> now,
             scratch |-> made, written |-> w, step |-> at, handles |-> h]
    IN  IF ~exists \/ step = "openIn"
        THEN fail("openIn", {}, 0, content, NoHandles)
        ELSE IF step = "openOut"
        THEN fail("openOut", {}, 0, content, Handles(1, 0, 0, 0))
        ELSE IF old = <<>>
        THEN [outcome |-> "panic", wrote |-> 0, content |-> content,
              scratch |-> {tmpFile}, written |-> 0, step |-> "copy",
              handles |-> Deferred]
        ELSE IF step = "copy"
        THEN fail("copy", {tmpFile}, Min(part, Len(out)),
                  SubSeq(out, 1, Min(part, Len(out))), Deferred)
        ELSE IF step = "rename"
        THEN fail("rename", {tmpFile}, Len(out), content, Deferred)
        ELSE [outcome |-> "ok", wrote |-> Len(out), content |-> out,
              scratch |-> {tmpFile}, written |-> Len(out), step |-> "none",
              handles |-> Deferred]

\* (a pass that copies no more bytes than its input holds)
DoSingleReplaceInputSized(path, content, exists, old, new, step, part) ==
    LET tmpFile == PathJoin(PathDir(path), TmpName)
        all == ReadAll(content, old, new)
        out == SubSeq(all, 1, Min(Len(content), Len(all)))
        fail(at, made, w, h) ==
            [outcome |-> "error", wrote |-> 0, content |-> content,
             scratch |-> made, written |-> w, step |-> at, handles |-> h]
    IN  IF ~exists \/ step = "openIn" THEN fail("openIn", {}, 0, NoHandles)
        ELSE IF step = "openOut"
        THEN fail("openOut", {}, 0, Handles(1, 0, 0, 0))
        ELSE IF old = <<>>
        THEN [outcome |-> "panic", wrote |-> 0, content |-> content,
              scratch |-> {tmpFile}, written |-> 0, step |-> "copy",
              handles |-> Deferred]
        ELSE IF step = "copy"
        THEN fail("copy", {tmpFile}, Min(part, Len(out)), Deferred)
        ELSE IF step = "rename" THEN fail("rename", {tmpFile}, Len(out), Deferred)
        ELSE [outcome |-> "ok", wrote |-> Len(out), content |-> out,
              scratch |-> {tmpFile}, written |-> Len(out), step |-> "none",
              handles |-> Deferred]

\* One pass of the sequential engine over the file content (exists: whether
\* the working file is there), with step the I/O step that fails ("none":
\* none does).  wrote and outcome are what the closure returns; scratch are
\* the scratch files it created, written the bytes it wrote to them.
DoSingleReplace(path, content, exists, old, new, step, part) ==
    LET tmpFile == PathJoin(PathDir(path), TmpName)
        out == ReadAll(content, old, new)
        fail(at, made, w, h) ==
            [outcome |-> "error", wrote |-> 0, content |-> content,
             scratch |-> made, written |-> w, step |-> at, handles |-> h]
    IN  IF ~exists \/ step = "openIn" THEN fail("openIn", {}, 0, NoHandles)
        ELSE IF step = "openOut"
        THEN fail("openOut", {}, 0, Handles(1, 0, 0, 0))
        ELSE IF old = <<>>
        THEN [outcome |-> "panic", wrote |-> 0, content |-> content,
              scratch |-> {tmpFile}, written |-> 0, step |-> "copy",
              handles |-> Deferred]
        ELSE IF step = "copy"
        THEN fail("copy", {tmpFile}, Min(part, Len(out)), Deferred)
        ELSE IF step = "rename" THEN fail("rename", {tmpFile}, Len(out), Deferred)
        ELSE [outcome |-> "ok", wrote |-> Len(out), content |-> out,
              scratch |-> {tmpFile}, written |-> Len(out), step |-> "none",
              handles |-> Deferred]

\* (a table that survives the replace)
KeepMappings(st) == st

\* Mappings.Indices = Mappings.Indices[:0]; Mappings.Keys = Mappings.Keys[:0]
ClearMappings(st) == [st EXCEPT !.Keys = <<>>, !.Indices = <<>>]

\* The loop over the mappings from index i on.  st carries the Replacer, the
\* working file and what the call has done so far; r is what the pass for
\* mapping i returned and the content it left in the working file.
RECURSIVE SeqLoop(_, _, _)

\* (a loop that returns the last pass's byte count instead of the sum)
SeqPassLastCount(i, st, fault, r) ==
    LET seen == [st EXCEPT !.passes = i,
                           !.content = r.content,
                           !.scratch = st.scratch \cup r.scratch,
                           !.written = st.written + r.written,
                           !.handles = AddHandles(st.handles, r.handles)]
    IN  IF r.outcome # "ok"
        THEN [seen EXCEPT !.outcome = r.outcome, !.n = st.count, !.failed = i,
                          !.step = r.step]
        ELSE SeqLoop(i + 1,
                     [seen EXCEPT !.count = r.wrote,
                                  !.FileSize = r.wrote,
                                  !.completed = i],
                     fault)

SeqPass(i, st, fault, r) ==
    LET seen == [st EXCEPT !.passes = i,
                           !.content = r.content,
                           !.scratch = st.scratch \cup r.scratch,
                           !.written = st.written + r.written,
                           !.handles = AddHandles(st.handles, r.handles)]
    IN  IF r.outcome # "ok"
        THEN [seen EXCEPT !.outcome = r.outcome, !.n = st.count, !.failed = i,
                          !.step = r.step]
        ELSE SeqLoop(i + 1,
                     [seen EXCEPT !.count = st.count + r.wrote,
                                  !.FileSize = r.wrote,
                                  !.completed = i],
                     fault)

SeqLoop(i, st, fault) ==
    IF i > Len(st.Keys)
    THEN ClearMappings([st EXCEPT !.outcome = "ok", !.n = st.count])
    ELSE SeqPass(i, st, fault,
                 DoSingleReplace(st.FilePath, st.content, st.exists,
                                 st.Keys[i], st.Indices[i],
                                 IF fault.pass = i THEN fault.step ELSE "none",
                                 fault.part))

\* The state a call starts from
CallState(path, size, keys, indices, content, exists) ==
    [FilePath |-> path, FileSize |-> size, Keys |-> keys, Indices |-> indices,
     content |-> content, exists |-> exists,
     outcome |-> "none", n |-> 0, count |-> 0, passes |-> 0, completed |-> 0,
     failed |-> 0, written |-> 0, scratch |-> {}, step |-> "none",
     handles |-> NoHandles]

\* (a sequential replace that creates its scratch file before it looks at
\* the table)
DoSequentialReplaceScratchFirst(st, fault) ==
    LET r == SeqLoop(1, st, fault)
    IN  [r EXCEPT !.scratch =
                      r.scratch \cup {PathJoin(PathDir(st.FilePath), TmpName)}]

DoSequentialReplace(st, fault) == SeqLoop(1, st, fault)

---------------------------------------------------------------------------
(* DoChainReplace *)

\* (a chain whose loop does not skip index 0: mapping 0 gets two readers)
RECURSIVE ChainOutputFirstTwice(_, _, _, _)
ChainOutputFirstTwice(input, keys, indices, n) ==
    IF n = 1
    THEN ReadAll(ReadAll(input, keys[1], indices[1]), keys[1], indices[1])
    ELSE ReadAll(ChainOutputFirstTwice(input, keys, indices, n - 1),
                 keys[n], indices[n])

\* What the head of the chain of readers 1..n yields: reader 1 reads the
\* file, reader k reads reader k-1
RECURSIVE ChainOutput(_, _, _, _)
ChainOutput(input, keys, indices, n) ==
    IF n = 1
    THEN ReadAll(input, keys[1], indices[1])
    ELSE ReadAll(ChainOutput(input, keys, indices, n - 1), keys[n], indices[n])

\* (a chained replace that renames the scratch file over the working file
\* without removing it first)
DoChainReplaceRenamesOver(st, fault) ==
    LET tmpfile == <<TmpName>>
        step == fault.step
        out == ChainOutput(st.content, st.Keys, st.Indices, Len(st.Keys))
        fail(at, made, w, exists, h) ==
            [st EXCEPT !.outcome = "error", !.n = 0, !.scratch = made,
                       !.written = w, !.exists = exists, !.failed = 1,
                       !.passes = IF made = {} THEN 0 ELSE 1,
                       !.step = at, !.handles = h]
    IN  IF ~st.exists \/ step = "openIn"
        THEN fail("openIn", {}, 0, st.exists, NoHandles)
        ELSE IF step = "openOut"
        THEN fail("openOut", {}, 0, TRUE, Handles(1, 0, 0, 0))
        ELSE IF st.Keys = <<>> \/ \E i \in 1..Len(st.Keys) : st.Keys[i] = <<>>
        THEN [st EXCEPT !.outcome = "panic", !.scratch = {tmpfile},
                        !.passes = 1, !.failed = 1, !.step = "copy",
                        !.handles = Deferred]
        ELSE IF step = "copy"
        THEN fail("copy", {tmpfile}, Min(fault.part, Len(out)), TRUE, Deferred)
        ELSE IF step = "remove"
        THEN fail("remove", {tmpfile}, Len(out), TRUE, Deferred)
        ELSE IF step = "rename"
        THEN fail("rename", {tmpfile}, Len(out), TRUE, Deferred)
        ELSE ClearMappings(
                 [st EXCEPT !.outcome = "ok", !.n = Len(out),
                            !.scratch = {tmpfile}, !.written = Len(out),
                            !.content = out, !.FileSize = Len(out),
                            !.passes = 1, !.completed = 1,
                            !.handles = Deferred])

\* (a chained replace that does not record the size of what it wrote)
DoChainReplaceKeepsSize(st, fault) ==
    LET tmpfile == <<TmpName>>
        step == fault.step
        out == ChainOutput(st.content, st.Keys, st.Indices, Len(st.Keys))
        fail(at, made, w, exists, h) ==
            [st EXCEPT !.outcome = "error", !.n = 0, !.scratch = made,
                       !.written = w, !.exists = exists, !.failed = 1,
                       !.passes = IF made = {} THEN 0 ELSE 1,
                       !.step = at, !.handles = h]
    IN  IF ~st.exists \/ step = "openIn"
        THEN fail("openIn", {}, 0, st.exists, NoHandles)
        ELSE IF step = "openOut"
        THEN fail("openOut", {}, 0, TRUE, Handles(1, 0, 0, 0))
        ELSE IF st.Keys = <<>> \/ \E i \in 1..Len(st.Keys) : st.Keys[i] = <<>>
        THEN [st EXCEPT !.outcome = "panic", !.scratch = {tmpfile},
                        !.passes = 1, !.failed = 1, !.step = "copy",
                        !.handles = Deferred]
        ELSE IF step = "copy"
        THEN fail("copy", {tmpfile}, Min(fault.part, Len(out)), TRUE, Deferred)
        ELSE IF step = "remove"
        THEN fail("remove", {tmpfile}, Len(out), TRUE, Deferred)
        ELSE IF step = "rename"
        THEN fail("rename", {tmpfile}, Len(out), FALSE, Deferred)
        ELSE ClearMappings(
                 [st EXCEPT !.outcome = "ok", !.n = Len(out),
                            !.scratch = {tmpfile}, !.written = Len(out),
                            !.content = out,
                            !.passes = 1, !.completed = 1,
                            !.handles = Deferred])

\* The chained engine: one pass through the chain of readers, then remove
\* and rename; step is the I/O step that failed, handles the opens and
\* closes made
DoChainReplace(st, fault) ==
    LET tmpfile == <<TmpName>>
        step == fault.step
        out == ChainOutput(st.content, st.Keys, st.Indices, Len(st.Keys))
        fail(at, made, w, exists, h) ==
            [st EXCEPT !.outcome = "error", !.n = 0, !.scratch = made,
                       !.written = w, !.exists = exists, !.failed = 1,
                       !.passes = IF made = {} THEN 0 ELSE 1,
                       !.step = at, !.handles = h]
    IN  IF ~st.exists \/ step = "openIn"
        THEN fail("openIn", {}, 0, st.exists, NoHandles)
        ELSE IF step = "openOut"
        THEN fail("openOut", {}, 0, TRUE, Handles(1, 0, 0, 0))
        ELSE IF st.Keys = <<>> \/ \E i \in 1..Len(st.Keys) : st.Keys[i] = <<>>
        THEN [st EXCEPT !.outcome = "panic", !.scratch = {tmpfile},
                        !.passes = 1, !.failed = 1, !.step = "copy",
                        !.handles = Deferred]
        ELSE IF step = "copy"
        THEN fail("copy", {tmpfile}, Min(fault.part, Len(out)), TRUE, Deferred)
        ELSE IF step = "remove"
        THEN fail("remove", {tmpfile}, Len(out), TRUE, Deferred)
        ELSE IF step = "rename"
        THEN fail("rename", {tmpfile}, Len(out), FALSE, Deferred)
        ELSE ClearMappings(
                 [st EXCEPT !.outcome = "ok", !.n = Len(out),
                            !.scratch = {tmpfile}, !.written = Len(out),
                            !.content = out, !.FileSize = Len(out),
                            !.passes = 1, !.completed = 1,
                            !.handles = Deferred])

---------------------------------------------------------------------------
(* The Replacer's methods *)

NoCall == CallState(<<>>, 0, <<>>, <<>>, <<>>, FALSE)
NoRt == [ok |-> FALSE, C |-> <<>>, old |-> <<>>, new |-> <<>>]

\* No copy is in progress between two calls
NoReader == [input |-> <<>>, rest |-> <<>>, layers |-> <<>>, out |-> <<>>,
             flushed |-> <<>>, cuts |-> {}, done |-> TRUE]

\* The state the Replacer and the working file are in
Here == CallState(FilePath, FileSize, Keys, Indices, fsContent, fsExists)

\* What a call did: its arguments, what it returned, the state it started
\* from (pre, File), what the engine did (res), the mapping applied before
\* it (rt) and, per mapping it started with, the passes completed so far
\* (applied)
Returned(op, outcome, n, old, new, pre, res, app) ==
    [op |-> op, outcome |-> outcome, n |-> n, old |-> old, new |-> new,
     pre |-> pre, res |-> res, rt |-> rt, applied |-> app, File |-> File]

\* NewReplacer on an existing file with the given content
Init ==
    /\ FilePath \in Paths
    /\ fsContent \in Contents
    /\ fsExists = TRUE
    /\ File = "open"
    /\ FileSize = Len(fsContent)
    /\ Keys = <<>>
    /\ Indices = <<>>
    /\ applied = <<>>
    /\ rt = NoRt
    /\ ret = Returned("NewReplacer", "ok", 0, <<>>, <<>>, NoCall, NoCall, <<>>)
    /\ calls = 0
    /\ reader = NoReader

\* (a registration that does not look at the length of the old sequence)
NewMappingUnchecked(oldString, newString) ==
    /\ calls < MaxCalls
    /\ calls' = calls + 1
    /\ Len(Keys) < MaxMappings
    /\ Keys' = Append(Keys, oldString)
    /\ Indices' = Append(Indices, newString)
    /\ applied' = Append(applied, 0)
    /\ ret' = Returned("NewMapping", "ok", 0, oldString, newString,
                       NoCall, NoCall, <<>>)
    /\ UNCHANGED <<FilePath, File, FileSize, fsContent, fsExists, rt, reader>>

NewMapping(oldString, newString) ==
    /\ calls < MaxCalls
    /\ calls' = calls + 1
    /\ IF Len(oldString) = 0
       THEN /\ ret' = Returned("NewMapping", "error", 0, oldString, newString,
                               NoCall, NoCall, <<>>)
            /\ UNCHANGED <<Keys, Indices, applied>>
       ELSE /\ Len(Keys) < MaxMappings
            /\ Keys' = Append(Keys, oldString)
            /\ Indices' = Append(Indices, newString)
            /\ applied' = Append(applied, 0)
            /\ ret' = Returned("NewMapping", "ok", 0, oldString, newString,
                               NoCall, NoCall, <<>>)
    /\ UNCHANGED <<FilePath, File, FileSize, fsContent, fsExists, rt, reader>>

\* (a registration that appends its two arguments to the wrong sequences)
NewStringMappingSwapped(oldString, newString) ==
    /\ calls < MaxCalls
    /\ calls' = calls + 1
    /\ IF oldString = <<>>
       THEN /\ ret' = Returned("NewStringMapping", "error", 0, oldString,
                               newString, NoCall, NoCall, <<>>)
            /\ UNCHANGED <<Keys, Indices, applied>>
       ELSE /\ Len(Keys) < MaxMappings
            /\ Keys' = Append(Keys, newString)
            /\ Indices' = Append(Indices, oldString)
            /\ applied' = Append(applied, 0)
            /\ ret' = Returned("NewStringMapping", "ok", 0, oldString,
                               newString, NoCall, NoCall, <<>>)
    /\ UNCHANGED <<FilePath, File, FileSize, fsContent, fsExists, rt, reader>>

\* []byte(s) of a string s is the sequence of its bytes
NewStringMapping(oldString, newString) ==
    /\ calls < MaxCalls
    /\ calls' = calls + 1
    /\ IF oldString = <<>>
       THEN /\ ret' = Returned("NewStringMapping", "error", 0, oldString,
                               newString, NoCall, NoCall, <<>>)
            /\ UNCHANGED <<Keys, Indices, applied>>
       ELSE /\ Len(Keys) < MaxMappings
            /\ Keys' = Append(Keys, oldString)
            /\ Indices' = Append(Indices, newString)
            /\ applied' = Append(applied, 0)
            /\ ret' = Returned("NewStringMapping", "ok", 0, oldString,
                               newString, NoCall, NoCall, <<>>)
    /\ UNCHANGED <<FilePath, File, FileSize, fsContent, fsExists, rt, reader>>

\* The passes the call completed count for the mappings they applied
Count(done) ==
    [i \in 1..Len(applied) |-> applied[i] + (IF i <= done THEN 1 ELSE 0)]

Replace(fault) ==
    /\ calls < MaxCalls
    /\ calls' = calls + 1
    /\ \E r \in {DoSequentialReplace(Here, fault)} :
           /\ Keys' = r.Keys
           /\ Indices' = r.Indices
           /\ FileSize' = r.FileSize
           /\ fsContent' = r.content
           /\ fsExists' = r.exists
           /\ applied' = IF r.outcome = "ok" THEN <<>> ELSE Count(r.completed)
           /\ rt' = IF r.outcome = "ok" /\ Len(Keys) = 1
                    THEN [ok |-> TRUE, C |-> fsContent,
                          old |-> Keys[1], new |-> Indices[1]]
                    ELSE NoRt
           /\ ret' = Returned("Replace", r.outcome, r.n, <<>>, <<>>, Here, r,
                               Count(r.completed))
           \* a rename puts another file at FilePath
           /\ File' = IF File = "open" /\ r.completed >= 1
                      THEN "stale" ELSE File
    /\ UNCHANGED <<FilePath, reader>>

ReplaceChained(fault) ==
    /\ calls < MaxCalls
    /\ calls' = calls + 1
    /\ \E r \in {DoChainReplace(Here, fault)} :
           /\ Keys' = r.Keys
           /\ Indices' = r.Indices
           /\ FileSize' = r.FileSize
           /\ fsContent' = r.content
           /\ fsExists' = r.exists
           /\ applied' = IF r.outcome = "ok" THEN <<>> ELSE applied
           /\ rt' = NoRt
           /\ ret' = Returned("ReplaceChained", r.outcome, r.n, <<>>, <<>>,
                               Here, r, applied)
           \* the remove takes the file the handle is on away from FilePath
           /\ File' = IF File = "open" /\ (r.outcome = "ok" \/ fsExists # r.exists)
                      THEN "stale" ELSE File
    /\ UNCHANGED <<FilePath, reader>>

ResetSteps == {"none", "close", "stat", "open"}

\* (a Reset that reopens the file and leaves the table as it is)
ResetKeepsTable(step) ==
    /\ calls < MaxCalls
    /\ calls' = calls + 1
    /\ IF File \notin {"open", "stale"} \/ step = "close"
       THEN /\ File' = IF File = "nil" THEN "nil" ELSE "closed"
            /\ ret' = Returned("Reset", "error", 0, <<>>, <<>>, Here, NoCall, <<>>)
       ELSE IF ~fsExists \/ step = "stat"
       THEN /\ File' = "closed"
            /\ ret' = Returned("Reset", "error", 0, <<>>, <<>>, Here, NoCall, <<>>)
       ELSE IF step = "open"
       THEN /\ File' = "nil"
            /\ ret' = Returned("Reset", "error", 0, <<>>, <<>>, Here, NoCall, <<>>)
       ELSE /\ File' = "open"
            /\ ret' = Returned("Reset", "ok", 0, <<>>, <<>>, Here, NoCall, <<>>)
    /\ UNCHANGED <<Keys, Indices, applied>>
    /\ UNCHANGED <<FilePath, FileSize, fsContent, fsExists, rt, reader>>

\* Close, Stat, OpenFile, then the table is emptied; each of the three can
\* fail, and Close fails on a handle that is closed or nil
Reset(step) ==
    /\ calls < MaxCalls
    /\ calls' = calls + 1
    /\ IF File \notin {"open", "stale"} \/ step = "close"
       THEN /\ File' = IF File = "nil" THEN "nil" ELSE "closed"
            /\ ret' = Returned("Reset", "error", 0, <<>>, <<>>, Here, NoCall, <<>>)
            /\ UNCHANGED <<Keys, Indices, applied>>
       ELSE IF ~fsExists \/ step = "stat"
       THEN /\ File' = "closed"
            /\ ret' = Returned("Reset", "error", 0, <<>>, <<>>, Here, NoCall, <<>>)
            /\ UNCHANGED <<Keys, Indices, applied>>
       ELSE IF step = "open"
       THEN /\ File' = "nil"
            /\ ret' = Returned("Reset", "error", 0, <<>>, <<>>, Here, NoCall, <<>>)
            /\ UNCHANGED <<Keys, Indices, applied>>
       ELSE /\ File' = "open"
            /\ Keys' = <<>>
            /\ Indices' = <<>>
            /\ applied' = <<>>
            /\ ret' = Returned("Reset", "ok", 0, <<>>, <<>>, Here, NoCall, <<>>)
    /\ UNCHANGED <<FilePath, FileSize, fsContent, fsExists, rt, reader>>

Next ==
    \/ \E old \in Olds, new \in News : NewMapping(old, new)
    \/ \E old \in Olds, new \in News : NewStringMapping(old, new)
    \/ \E fault \in Faults(Len(Keys), SeqSteps) : Replace(fault)
    \/ \E fault \in Faults(1, ChainSteps) : ReplaceChained(fault)
    \/ \E step \in ResetSteps : Reset(step)

Spec == Init /\ [][Next]_vars

---------------------------------------------------------------------------
(* The engines as functions of the file content and the mapping table:     *)
(* the Replacer starts with its mappings registered, over longer patterns  *)
(* and contents, and no I/O step fails.                                    *)

MaxDeepLen == 3
MaxDeepPat == 2

DeepContents == SeqsUpTo(Bytes, MaxDeepLen)
DeepNews == SeqsUpTo(Bytes, MaxDeepPat)
DeepOlds == DeepNews \ {<<>>}

\* NewReplacer on a file, then one NewMapping per mapping of the table
InitDeep ==
    /\ FilePath = <<"f">>
    /\ fsContent \in DeepContents
    /\ fsExists = TRUE
    /\ File = "open"
    /\ FileSize = Len(fsContent)
    /\ \E n \in 1..MaxMappings :
          /\ Keys \in [1..n -> DeepOlds]
          /\ Indices \in [1..n -> DeepNews]
    /\ applied = [i \in 1..Len(Keys) |-> 0]
    /\ rt = NoRt
    /\ ret = Returned("NewMapping", "ok", 0, Keys[Len(Keys)],
                      Indices[Len(Indices)], NoCall, NoCall, <<>>)
    /\ calls = Len(Keys)
    /\ reader = NoReader

\* After a one-mapping Replace, the caller registers the inverse mapping
NextDeep ==
    \/ \E fault \in {NoFault} : Replace(fault)
    \/ \E fault \in {NoFault} : ReplaceChained(fault)
    \/ \E old \in {rt.new}, new \in {rt.old} : rt.ok /\ NewMapping(old, new)

SpecDeep == InitDeep /\ [][NextDeep]_vars

---------------------------------------------------------------------------
(* The copy of a pass, read by read: the Replacer has its mappings        *)
(* registered, the chain of readers over them is built and the file is    *)
(* read through it in reads of any size.                                   *)

MaxInputLen == 4
MaxPatLen == 3
MaxRepLen == 1
MaxLayers == 2

ReaderInputs == SeqsUpTo(Bytes, MaxInputLen)
ReaderOlds == SeqsUpTo(Bytes, MaxPatLen) \ {<<>>}
ReaderNews == SeqsUpTo(Bytes, MaxRepLen)

InitReader ==
    /\ FilePath = <<"f">>
    /\ fsContent \in ReaderInputs
    /\ fsExists = TRUE
    /\ File = "open"
    /\ FileSize = Len(fsContent)
    /\ \E n \in 1..MaxLayers :
          /\ Keys \in [1..n -> ReaderOlds]
          /\ Indices \in [1..n -> ReaderNews]
    /\ applied = [i \in 1..Len(Keys) |-> 0]
    /\ rt = NoRt
    /\ ret = Returned("NewMapping", "ok", 0, Keys[Len(Keys)],
                      Indices[Len(Indices)], NoCall, NoCall, <<>>)
    /\ calls = Len(Keys)
    /\ reader = [input |-> fsContent, rest |-> fsContent,
                 layers |-> NewChain(Keys, Indices), out |-> <<>>,
                 flushed |-> <<>>, cuts |-> {}, done |-> FALSE]

\* A read of the head of the chain for which the file gives its next k bytes
ReaderRead(k) ==
    /\ ~reader.done
    /\ k \in 1..Len(reader.rest)
    /\ \E r \in {ChainFeed(reader.layers, 1, SubSeq(reader.rest, 1, k))} :
           reader' = [reader EXCEPT
                         !.rest = SubSeq(reader.rest, k + 1, Len(reader.rest)),
                         !.layers = r.layers,
                         !.out = reader.out \o r.out,
                         !.cuts = reader.cuts \cup
                                     {Len(reader.input) - Len(reader.rest) + k}]
    /\ UNCHANGED <<FilePath, File, FileSize, Keys, Indices, fsContent,
                   fsExists, applied, rt, ret, calls>>

\* The read that finds the file exhausted: end of stream goes up the chain
ReaderEnd ==
    /\ ~reader.done
    /\ reader.rest = <<>>
    /\ \E r \in {ChainEnd(reader.layers, 1, <<>>)} :
           reader' = [reader EXCEPT
                         !.layers = r.layers,
                         !.out = reader.out \o r.out,
                         !.flushed = reader.layers[1].carry,
                         !.done = TRUE]
    /\ UNCHANGED <<FilePath, File, FileSize, Keys, Indices, fsContent,
                   fsExists, applied, rt, ret, calls>>

NextReader ==
    \/ \E k \in 1..MaxInputLen : ReaderRead(k)
    \/ ReaderEnd

SpecReader == InitReader /\ [][NextReader]_vars

---------------------------------------------------------------------------
(* Properties *)

IsEngine(op) == op \in {"Replace", "ReplaceChained"}

\* p occurs in s
Occurs(p, s) ==
    \E k \in 1..(Len(s) - Len(p) + 1) : SubSeq(s, k, k + Len(p) - 1) = p

\* No mapping's new value contains another mapping's old value
NoInteraction(keys, indices) ==
    \A i \in 1..Len(keys) : \A j \in 1..Len(keys) :
        i # j => ~Occurs(keys[j], indices[i])

\* C1: from the same content and the same non-empty mapping table, with no
\* mapping's new value containing another mapping's old value, a successful
\* ReplaceChained and a successful Replace leave the same working file: what
\* the engine that ran left is what the other engine leaves from the state
\* this call started in.
C1_ChainedEqualsSequential ==
    (/\ IsEngine(ret.op)
     /\ ret.outcome = "ok"
     /\ ret.pre.Keys # <<>>
     /\ NoInteraction(ret.pre.Keys, ret.pre.Indices))
    => \E other \in {IF ret.op = "Replace"
                     THEN DoChainReplace(ret.pre, NoFault)
                     ELSE DoSequentialReplace(ret.pre, NoFault)} :
          /\ other.outcome = "ok"
          /\ other.exists = fsExists
          /\ other.content = fsContent

\* C1 witness: a chained replace with two non-interacting mappings that each
\* changed the content
C1_Witness ==
    /\ ret.op = "ReplaceChained"
    /\ ret.outcome = "ok"
    /\ Len(ret.pre.Keys) = 2
    /\ NoInteraction(ret.pre.Keys, ret.pre.Indices)
    /\ \E mid \in {ReadAll(ret.pre.content, ret.pre.Keys[1], ret.pre.Indices[1])} :
          /\ mid # ret.pre.content
          /\ fsContent # mid

\* The places where p occurs in s
OccurrencesOf(p, s) ==
    {k \in 1..(Len(s) - Len(p) + 1) : SubSeq(s, k, k + Len(p) - 1) = p}

\* The places of s, from k on, where a left-to-right scan for p matches
RECURSIVE MatchesFrom(_, _, _)
MatchesFrom(s, p, k) ==
    IF k + Len(p) - 1 > Len(s) THEN {}
    ELSE IF SubSeq(s, k, k + Len(p) - 1) = p
    THEN {k} \cup MatchesFrom(s, p, k + Len(p))
    ELSE MatchesFrom(s, p, k + 1)

\* The places, in the content after old was replaced by new in C, where the
\* copies of new stand
WrittenAt(C, old, new) ==
    LET ms == MatchesFrom(C, old, 1)
    IN  {k + Cardinality({m \in ms : m < k}) * (Len(new) - Len(old)) : k \in ms}

\* The last two engine calls were a successful Replace of one mapping
\* (old -> new), old and new non-empty and old not in new, and a successful
\* Replace of its inverse (new -> old)
RoundTripCase ==
    /\ ret.op = "Replace"
    /\ ret.outcome = "ok"
    /\ ret.rt.ok
    /\ ret.rt.new # <<>>
    /\ ~Occurs(ret.rt.old, ret.rt.new)
    /\ ret.pre.Keys = <<ret.rt.new>>
    /\ ret.pre.Indices = <<ret.rt.old>>

\* C2 as claimed: Replace of (old -> new), old and new non-empty and old not
\* occurring in new, then Replace of (new -> old), restores the content C
\* the first Replace started from.
C2_RoundTrip ==
    RoundTripCase => fsContent = ret.rt.C

\* C2 as amended: the round trip restores C when, besides, new occurs in the
\* content the first Replace left only where that Replace wrote it.
C2_RoundTripWhereNewIsFresh ==
    (/\ RoundTripCase
     /\ OccurrencesOf(ret.rt.new, ret.pre.content)
            = WrittenAt(ret.rt.C, ret.rt.old, ret.rt.new))
    => fsContent = ret.rt.C

\* C2 witness: such a round trip in which the first Replace replaced an
\* occurrence, changed the length of the content and left bytes as they were
C2_Witness ==
    /\ RoundTripCase
    /\ OccurrencesOf(ret.rt.new, ret.pre.content)
           = WrittenAt(ret.rt.C, ret.rt.old, ret.rt.new)
    /\ WrittenAt(ret.rt.C, ret.rt.old, ret.rt.new) # {}
    /\ Len(ret.pre.content) # Len(ret.rt.C)
    /\ Len(ret.rt.C) > Len(ret.rt.old)
    /\ fsContent = ret.rt.C

IsRegistration(op) == op \in {"NewMapping", "NewStringMapping"}

\* C3: a registration with an empty old sequence, by NewMapping or by
\* NewStringMapping, returns an error and leaves Keys and Indices as they
\* were; and no key of the table is ever empty.
C3_EmptyOldRejected ==
    /\ [][(IsRegistration(ret'.op) /\ ret'.old = <<>>)
            => (/\ ret'.outcome = "error"
                /\ Keys' = Keys
                /\ Indices' = Indices)]_vars
    /\ [](\A i \in 1..Len(Keys) : Keys[i] # <<>>)

\* C3 witness: an empty old sequence was refused while a mapping was
\* registered
C3_Witness ==
    /\ IsRegistration(ret.op)
    /\ ret.old = <<>>
    /\ ret.outcome = "error"
    /\ Len(Keys) = 1
    /\ Len(Indices) = 1

\* C4 as claimed: ReplaceChained on an empty Mapping Table returns an error
\* value (it does not panic) and leaves the working file as it was.
C4_EmptyChainedIsError ==
    (ret.op = "ReplaceChained" /\ ret.pre.Keys = <<>>)
    => (/\ ret.outcome = "error"
        /\ fsExists = ret.pre.exists
        /\ fsContent = ret.pre.content)

\* C5 as claimed: the integer a failed Replace or ReplaceChained returns is
\* the number of bytes written before the failure, and 0 is returned only
\* when the working file was not replaced at all.
C5_FailureReturnsBytesWritten ==
    (IsEngine(ret.op) /\ ret.outcome = "error")
    => (/\ ret.n = ret.res.written
        /\ ret.n = 0 => (fsExists = ret.pre.exists /\ fsContent = ret.pre.content))

\* The content after the first k mappings were applied to C, in order
RECURSIVE ApplyFirst(_, _, _, _)
ApplyFirst(C, keys, indices, k) ==
    IF k = 0 THEN C
    ELSE ReadAll(ApplyFirst(C, keys, indices, k - 1), keys[k], indices[k])

\* C6: when the pass for mapping k (0-based) of a Replace fails, no later
\* pass is started, and the working file holds the original content with
\* mappings 0..k-1 applied in order; the table keeps its mappings.
C6_SequentialAbort ==
    (ret.op = "Replace" /\ ret.outcome = "error")
    => (/\ ret.res.failed \in 1..Len(ret.pre.Keys)
        /\ ret.res.passes = ret.res.failed
        /\ ret.res.completed = ret.res.failed - 1
        /\ fsExists = ret.pre.exists
        /\ fsContent = ApplyFirst(ret.pre.content, ret.pre.Keys,
                                  ret.pre.Indices, ret.res.failed - 1)
        /\ Keys = ret.pre.Keys
        /\ Indices = ret.pre.Indices)

\* C6 witness: the second pass failed after its copy had written bytes, and
\* the file holds what the first pass made of it
C6_Witness ==
    /\ ret.op = "Replace"
    /\ ret.outcome = "error"
    /\ ret.res.failed = 2
    /\ ret.res.written > Len(fsContent)
    /\ fsContent # ret.pre.content

\* C7 as claimed: no registered mapping has had more than one pass
\* completed for it, over any sequence of Replace calls.
C7_AtMostOnce ==
    \A i \in 1..Len(ret.applied) : ret.applied[i] <= 1

\* C8: after a successful Replace or ReplaceChained the Mapping Table is
\* empty, and a Replace that follows at once succeeds, returns 0 and leaves
\* the working file as it is.
C8_TableConsumed ==
    /\ []((IsEngine(ret.op) /\ ret.outcome = "ok")
            => (Keys = <<>> /\ Indices = <<>>))
    /\ [][(IsEngine(ret.op) /\ ret.outcome = "ok" /\ ret'.op = "Replace")
            => (/\ ret'.outcome = "ok"
                /\ ret'.n = 0
                /\ ret'.res.passes = 0
                /\ fsExists' = fsExists
                /\ fsContent' = fsContent)]_vars

\* C8 witness: a Replace right after a successful one-mapping Replace that
\* had changed the file
C8_Witness ==
    /\ ret.op = "Replace"
    /\ ret.outcome = "ok"
    /\ ret.rt.ok
    /\ ret.pre.Keys = <<>>
    /\ fsContent # ret.rt.C

\* C9 as claimed: every scratch file a Replace or ReplaceChained creates is
\* in the directory of the working file.
C9_ScratchBesideFile ==
    IsEngine(ret.op)
    => \A p \in ret.res.scratch : PathDir(p) = PathDir(FilePath)

\* A successful engine call with mappings none of whose old sequences
\* occurs in the content
NoOpCase ==
    /\ IsEngine(ret.op)
    /\ ret.outcome = "ok"
    /\ ret.pre.Keys # <<>>
    /\ \A i \in 1..Len(ret.pre.Keys) : ~Occurs(ret.pre.Keys[i], ret.pre.content)

\* C10 as claimed: such a call leaves the file unchanged and returns the
\* original file size.
C10_NoOp ==
    NoOpCase
    => (/\ fsContent = ret.pre.content
        /\ ret.n = Len(ret.pre.content))

\* C10 as amended: such a call leaves the file unchanged; ReplaceChained
\* returns the original file size, Replace returns it once per mapping.
C10_NoOpPerPass ==
    NoOpCase
    => (/\ fsContent = ret.pre.content
        /\ fsExists
        /\ ret.n = IF ret.op = "ReplaceChained"
                   THEN Len(ret.pre.content)
                   ELSE Len(ret.pre.Keys) * Len(ret.pre.content))

\* C10 witness: a Replace with two mappings that match nothing in a file of
\* three bytes
C10_Witness ==
    /\ NoOpCase
    /\ ret.op = "Replace"
    /\ Len(ret.pre.Keys) = 2
    /\ Len(fsContent) = 3
    /\ ret.n = 6

\* The copy is over: the head of the chain has reported end of stream
CopyDone == reader.layers # <<>> /\ reader.done

\* The copy is over and the chain had one reader
OneReaderDone == CopyDone /\ Len(reader.layers) = 1

\* A read of the file ended strictly inside an occurrence of the first
\* reader's pattern
CutInsideMatch ==
    \E m \in MatchesFrom(reader.input, reader.layers[1].old, 1) :
        \E c \in reader.cuts : m <= c /\ c < m + Len(reader.layers[1].old) - 1

\* C11: however the file's bytes are cut into reads, what the head of the
\* chain has produced at end of stream is what the readers make of the
\* uncut input; with one reader, every occurrence the left-to-right scan
\* finds was replaced once (the length of the output accounts for each).
C11_CutIndependent ==
    /\ CopyDone =>
          reader.out = ChainOutput(reader.input, Keys, Indices, Len(Keys))
    /\ OneReaderDone =>
          Len(reader.out) = Len(reader.input)
              + Cardinality(MatchesFrom(reader.input, Keys[1], 1))
                  * (Len(Indices[1]) - Len(Keys[1]))

\* C11 witness: a copy in several reads, one of which ended inside an
\* occurrence of the pattern, and the occurrence was replaced
C11_Witness ==
    /\ OneReaderDone
    /\ CutInsideMatch
    /\ Cardinality(reader.cuts) >= 2
    /\ reader.out # reader.input
    /\ reader.out = ReadAll(reader.input, Keys[1], Indices[1])

\* bytes.ReplaceAll: leftmost-first, non-overlapping literal replacement
RECURSIVE LiteralReplace(_, _, _)
LiteralReplace(s, old, new) ==
    IF Len(s) < Len(old) THEN s
    ELSE IF SubSeq(s, 1, Len(old)) = old
    THEN new \o LiteralReplace(SubSeq(s, Len(old) + 1, Len(s)), old, new)
    ELSE <<Head(s)>> \o LiteralReplace(Tail(s), old, new)

\* The reader's pattern is "aa" and its replacement "b"
PatternAA ==
    /\ OneReaderDone
    /\ reader.layers[1].old = <<1, 1>>
    /\ reader.layers[1].new = <<2>>

\* C12: the output of one reader is the leftmost-first non-overlapping
\* literal replacement of its input; pattern "aa" with replacement "b"
\* turns "aaaa" into "bb" and "aaa" into "ba".
C12_LeftmostFirst ==
    /\ OneReaderDone =>
          reader.out = LiteralReplace(reader.input, reader.layers[1].old,
                                      reader.layers[1].new)
    /\ (PatternAA /\ reader.input = <<1, 1, 1, 1>>) => reader.out = <<2, 2>>
    /\ (PatternAA /\ reader.input = <<1, 1, 1>>) => reader.out = <<2, 1>>

\* C12 witness: "aaaa" read in more than one read came out as "bb"
C12_Witness ==
    /\ PatternAA
    /\ reader.input = <<1, 1, 1, 1>>
    /\ Cardinality(reader.cuts) >= 2
    /\ reader.out = <<2, 2>>

\* s ends with t
EndsWith(s, t) ==
    Len(t) <= Len(s) /\ SubSeq(s, Len(s) - Len(t) + 1, Len(s)) = t

\* C13: the bytes the reader holds when its upstream is exhausted are the
\* last bytes of its output, and an input in which the pattern does not
\* occur comes out as it went in.
C13_PartialMatchFlushed ==
    OneReaderDone
    => (/\ EndsWith(reader.out, reader.flushed)
        /\ EndsWith(reader.input, reader.flushed)
        /\ ~Occurs(reader.layers[1].old, reader.input)
               => reader.out = reader.input)

\* C13 witness: pattern "aab", input "baa": the reader held "aa" at the end
\* of the file and the output is "baa"
C13_Witness ==
    /\ OneReaderDone
    /\ reader.layers[1].old = <<1, 1, 2>>
    /\ reader.input = <<2, 1, 1>>
    /\ reader.flushed = <<1, 1>>
    /\ reader.out = <<2, 1, 1>>

\* C14: a successful Reset leaves the Mapping Table empty, whatever it
\* held, and the handle open on the file now at FilePath (it was open before,
\* on that file or on one since replaced); the path, the content and the
\* recorded size are as they were.
C14_ResetClearsAndReopens ==
    /\ [][(ret'.op = "Reset" /\ ret'.outcome = "ok")
            => (/\ Keys' = <<>>
                /\ Indices' = <<>>
                /\ File \in {"open", "stale"}
                /\ File' = "open"
                /\ FilePath' = FilePath
                /\ fsExists /\ fsExists'
                /\ fsContent' = fsContent
                /\ FileSize' = FileSize)]_vars
    /\ []((ret.op = "Reset" /\ ret.outcome = "ok")
            => (Keys = <<>> /\ Indices = <<>> /\ File = "open"))

\* C14 witness: a Reset that succeeded with two mappings registered and the
\* handle on a file a Replace pass had replaced
C14_Witness ==
    /\ ret.op = "Reset"
    /\ ret.outcome = "ok"
    /\ Len(ret.pre.Keys) = 2
    /\ ret.File = "stale"
    /\ fsContent = ret.pre.content
    /\ Keys = <<>>

\* C15: a ReplaceChained whose rename fails returns an error and leaves no
\* file at FilePath (the remove has run); one that fails at an earlier step
\* leaves the working file as it was.
C15_RemoveBeforeRename ==
    (ret.op = "ReplaceChained" /\ ret.outcome = "error")
    => (/\ ret.res.step \in ChainSteps
        /\ ret.n = 0
        /\ ret.res.step = "rename" => ~fsExists
        /\ ret.res.step # "rename"
               => (fsExists = ret.pre.exists /\ fsContent = ret.pre.content))

\* C15 witness: the rename failed after the whole output was written, and
\* the working file that was there is gone
C15_Witness ==
    /\ ret.op = "ReplaceChained"
    /\ ret.outcome = "error"
    /\ ret.res.step = "rename"
    /\ ret.pre.exists
    /\ ret.res.written > 0
    /\ ~fsExists

\* C16: after a successful Replace with at least one mapping and after a
\* successful ReplaceChained, FileSize is the length of the working file;
\* after a failed Replace it is what the last completed pass set (the length
\* of the file that pass left), or what it was before the call when no pass
\* completed; a failed ReplaceChained leaves it as it was.
C16_RecordedSize ==
    /\ (IsEngine(ret.op) /\ ret.outcome = "ok" /\ ret.pre.Keys # <<>>)
          => (fsExists /\ FileSize = Len(fsContent))
    /\ (ret.op = "Replace" /\ ret.outcome = "error")
          => FileSize = IF ret.res.completed = 0
                        THEN ret.pre.FileSize
                        ELSE Len(fsContent)
    /\ (ret.op = "ReplaceChained" /\ ret.outcome = "error")
          => FileSize = ret.pre.FileSize

\* C16 witness: the second pass of a Replace failed after the first had
\* changed the length of the file
C16_Witness ==
    /\ ret.op = "Replace"
    /\ ret.outcome = "error"
    /\ ret.res.completed = 1
    /\ FileSize = Len(fsContent)
    /\ FileSize # ret.pre.FileSize

\* C17: whenever a read of the chain has returned, every reader of the chain
\* holds at most len(pattern)-1 bytes in its carry-over buffer, and they are
\* a prefix of its pattern.
C17_CarryIsStrictPrefix ==
    \A i \in 1..Len(reader.layers) :
        /\ Len(reader.layers[i].carry) <= Len(reader.layers[i].old) - 1
        /\ IsPrefix(reader.layers[i].carry, reader.layers[i].old)

\* C17 witness: between two reads of a chain of two readers, the first holds
\* two bytes and the second holds one
C17_Witness ==
    /\ ~reader.done
    /\ reader.cuts # {}
    /\ Len(reader.layers) = 2
    /\ Len(reader.layers[1].carry) = 2
    /\ Len(reader.layers[2].carry) = 1
    /\ reader.layers[1].old # reader.layers[2].old

\* C18 as claimed: in a Replace or ReplaceChained, the input handles and
\* the scratch output handles that were opened were each closed exactly once
\* when the call returns.
C18_HandlesClosedOnce ==
    IsEngine(ret.op)
    => (/\ ret.res.handles.inClosed = ret.res.handles.inOpened
        /\ ret.res.handles.outClosed = ret.res.handles.outOpened)

\* C19: Keys and Indices have the same length and no key is empty; a
\* successful registration appends its old sequence to Keys and its new
\* sequence to Indices, and every other call leaves both as they are or
\* empties both.
C19_ParallelTable ==
    /\ [](/\ Len(Keys) = Len(Indices)
          /\ \A i \in 1..Len(Keys) : Keys[i] # <<>>)
    /\ [][calls' = calls + 1
            => IF IsRegistration(ret'.op) /\ ret'.outcome = "ok"
               THEN /\ Keys' = Append(Keys, ret'.old)
                    /\ Indices' = Append(Indices, ret'.new)
               ELSE \/ Keys' = Keys /\ Indices' = Indices
                    \/ Keys' = <<>> /\ Indices' = <<>>]_vars

\* C19 witness: after a Replace consumed the table, two different mappings
\* were registered and stand in the table in that order
C19_Witness ==
    /\ IsRegistration(ret.op)
    /\ ret.outcome = "ok"
    /\ File = "stale"
    /\ Len(Keys) = 2
    /\ Keys[2] = ret.old
    /\ Indices[2] = ret.new
    /\ Keys[1] # Keys[2]
    /\ Indices[1] # Indices[2]

\* C20: a Replace on an empty Mapping Table returns (0, nil), opens and
\* creates nothing, and leaves the working file, FileSize and the table as
\* they were.
C20_EmptyReplace ==
    (ret.op = "Replace" /\ ret.pre.Keys = <<>>)
    => (/\ ret.outcome = "ok"
        /\ ret.n = 0
        /\ ret.res.scratch = {}
        /\ ret.res.handles = NoHandles
        /\ fsExists = ret.pre.exists
        /\ fsContent = ret.pre.content
        /\ FileSize = ret.pre.FileSize
        /\ Keys = <<>>
        /\ Indices = <<>>)

\* C20 witness: a Replace as the first call on a Replacer of a non-empty
\* file
C20_Witness ==
    /\ ret.op = "Replace"
    /\ ret.pre.Keys = <<>>
    /\ ret.outcome = "ok"
    /\ calls = 1
    /\ fsContent # <<>>
    /\ FileSize = Len(fsContent)

===========================================================================
